---- MODULE Spec2Model ----
(***************************************************************************)
(* Theme persistence and application (static/js/theme-toggle.js) of the    *)
(* AIMS EXAM pages, modelled as a state machine over one browser tab:      *)
(* the localStorage entry, the data-theme attribute of the root element,   *)
(* the .theme-toggle controls, and the position of the script in the page  *)
(* lifecycle.                                                              *)
(***************************************************************************)
EXTENDS Integers, Sequences, FiniteSets, TLC

\* ---------------------------------------------------------------- bounds
MaxControls == 3
MaxSelectors == 2
MaxFields == 2
MaxAlerts == 2

\* ------------------------------------------------------------- constants
DARK_THEME == "dark"
LIGHT_THEME == "light"
Themes == {LIGHT_THEME, DARK_THEME}

\* getItem() of a missing key and getAttribute() of a missing attribute
\* both give null.
Null == "null"

TitleToLight == "Switch to Light Mode"
TitleToDark == "Switch to Dark Mode"

\* localStorage as the environment provides it: working, readable but
\* throwing on setItem (quota / private mode), or throwing on every access.
StorageModes == {"ok", "writeDenied", "unavailable"}

\* A .theme-toggle element as the markup delivers it, before any script
\* touched it.
MarkupAttrs ==
    { [pressed |-> Null, title |-> Null],
      [pressed |-> "false", title |-> TitleToDark],
      [pressed |-> "true", title |-> TitleToLight] }

MarkupControls ==
    { [pressed |-> a.pressed, title |-> a.title, listener |-> FALSE] : a \in MarkupAttrs }

VARIABLES
    store,         \* localStorage entry of THEME_KEY: Null, "light" or "dark"
    storage,       \* how localStorage behaves in this browser
    prefersDark,   \* matchMedia('(prefers-color-scheme: dark)').matches
    marker,        \* data-theme attribute of document.documentElement
    controls,      \* the .theme-toggle elements of the document, in document order
    readyState,    \* document.readyState: "loading" or "interactive"
    pc,            \* position of the script: start, waiting, done, failed, aborted
    exposed,       \* window.toggleTheme is defined
    uncaught,      \* an exception left a task of this script uncaught
    store0,        \* history: the store entry when the page load began
    toggled,       \* history: toggleTheme ran during this page load
    prepassTheme,  \* history: the theme the anti-flash pass resolved
    initApplied,   \* history: the theme initTheme passed to applyTheme
    togglesInRow,  \* history: consecutive toggleTheme calls, capped at 2
    snap1,         \* history: <<marker, store>> before the latest toggle
    snap2,         \* history: <<marker, store>> before the toggle before that
    lastArg,       \* history: argument of the latest applyTheme call
    repeat,        \* history: consecutive applyTheme calls with lastArg, capped at 2
    after1,        \* history: observable state after the previous applyTheme call
    toggleAt,      \* history: pc at the latest toggleTheme call of this page load
    toggleVia,     \* history: "click" or "global", the caller of that toggle
    earlyTheme,    \* history: theme chosen by the latest toggle made before initTheme
    resolvePure    \* history: the anti-flash resolution left the document as it was

themeVars == << store, storage, prefersDark, marker, controls, readyState, pc, exposed,
                uncaught, store0, toggled, prepassTheme, initApplied, togglesInRow,
                snap1, snap2, lastArg, repeat, after1, toggleAt, toggleVia,
                earlyTheme, resolvePure >>

\* State of the page's main script (sidebar, language selector, alerts,
\* forms), which shares nothing with the theme script.
VARIABLES
    mainReady,     \* init() of the main script has run
    sbDom,         \* which of .sidebar, .sidebar-toggle, .sidebar-overlay exist
    sidebarOpen,   \* .sidebar carries the class 'open'
    overlayOpen,   \* .sidebar-overlay carries the class 'open'
    sbStartClosed, \* history: neither carried 'open' in the markup
    selectors,     \* the .lang-selector elements: [hasBtn, open]
    lastClick,     \* history: [kind, idx] of the latest click
    preNav,        \* history: [sidebar, overlay, sel] open flags before that click
    fields,        \* form fields: [form, required, value, error]
    validate,      \* which forms carry data-validate
    lastSubmit,    \* history: form of the latest submit event, Null once edited
    prevented,     \* history: that submit event had its default prevented
    clearedError,  \* history: that submit removed an error class
    alerts,        \* the .alert elements: [dismiss, opacity, removed, fadeAt, removedAt]
    timers,        \* pending setTimeout callbacks: [alert, kind, due]
    now            \* milliseconds since the main script's init() could first run

uiVars == << mainReady, sbDom, sidebarOpen, overlayOpen, sbStartClosed, selectors,
             lastClick, preNav, fields, validate, lastSubmit, prevented,
             clearedError, alerts, timers, now >>

vars == << themeVars, uiVars >>

\* --------------------------------------------------------- pure helpers
Min(a, b) == IF a < b THEN a ELSE b

\* What styling rules and assistive technology can observe of the controls.
Shown(cs) == [i \in DOMAIN cs |-> [pressed |-> cs[i].pressed, title |-> cs[i].title]]

Observable(m, st, cs) == << m, st, Shown(cs) >>

\* Mutation: the stored entry is never consulted.
getSavedTheme_AlwaysLight(st) == LIGHT_THEME

\* localStorage.getItem(THEME_KEY) || LIGHT_THEME, storage readable.
getSavedTheme(st) == IF st = Null THEN LIGHT_THEME ELSE st

\* Mutation: the ambient signal is consulted before the stored entry.
checkSystemPreference_AmbientFirst(st, pd) ==
    IF pd THEN DARK_THEME ELSE getSavedTheme(st)

\* if (!getItem) return prefersDark ? DARK : LIGHT; return getSavedTheme()
checkSystemPreference(st, pd) ==
    IF st = Null
      THEN (IF pd THEN DARK_THEME ELSE LIGHT_THEME)
      ELSE getSavedTheme(st)

\* Mutation: the resolution persists the theme it resolved.
ResolveEffect_Persisting(d, pd) ==
    [theme |-> checkSystemPreference(d.store, pd),
     doc |-> [d EXCEPT !.store = checkSystemPreference(d.store, pd)]]

\* checkSystemPreference() as a state transformer over the document
\* d = [marker, store, controls]: lines 51-55 only call getItem and matchMedia,
\* so the document comes back as it went in.
ResolveEffect(d, pd) ==
    [theme |-> checkSystemPreference(d.store, pd), doc |-> d]

\* String(theme === DARK_THEME), as setAttribute stores it.
PressedFor(theme) == IF theme = DARK_THEME THEN "true" ELSE "false"

\* Mutation: the title names the active theme instead of the next one.
TitleFor_Current(theme) == IF theme = DARK_THEME THEN TitleToDark ELSE TitleToLight

TitleFor(theme) == IF theme = DARK_THEME THEN TitleToLight ELSE TitleToDark

\* document.querySelector('.theme-toggle'): the first match only.
UpdateToggleBtn(cs, theme) ==
    [i \in DOMAIN cs |->
        IF i = 1
          THEN [cs[i] EXCEPT !.pressed = PressedFor(theme), !.title = TitleFor(theme)]
          ELSE cs[i]]

\* Mutation: the theme is shown but never persisted.
applyTheme_NoPersist(d, sm, theme) ==
    IF sm = "ok"
      THEN [marker |-> theme, store |-> d.store,
            controls |-> UpdateToggleBtn(d.controls, theme), threw |-> FALSE]
      ELSE [marker |-> theme, store |-> d.store,
            controls |-> d.controls, threw |-> TRUE]

\* Mutation: the theme that was active before the call is persisted.
applyTheme_StaleStore(d, sm, theme) ==
    IF sm = "ok"
      THEN [marker |-> theme,
            store |-> (IF d.marker = Null THEN LIGHT_THEME ELSE d.marker),
            controls |-> UpdateToggleBtn(d.controls, theme), threw |-> FALSE]
      ELSE [marker |-> theme, store |-> d.store,
            controls |-> d.controls, threw |-> TRUE]

\* applyTheme(theme) on the document d = [marker, store, controls] under
\* storage mode sm. setAttribute runs first; setItem throws unless the
\* storage works, and then nothing after it runs.
applyTheme(d, sm, theme) ==
    IF sm = "ok"
      THEN [marker |-> theme, store |-> theme,
            controls |-> UpdateToggleBtn(d.controls, theme), threw |-> FALSE]
      ELSE [marker |-> theme, store |-> d.store,
            controls |-> d.controls, threw |-> TRUE]

\* Mutation: the toggle always switches to dark.
NewTheme_AlwaysDark(currentTheme) == DARK_THEME

NewTheme(currentTheme) == IF currentTheme = DARK_THEME THEN LIGHT_THEME ELSE DARK_THEME

\* getAttribute('data-theme') || LIGHT_THEME
CurrentTheme(m) == IF m = Null THEN LIGHT_THEME ELSE m

toggleTheme(d, sm) == applyTheme(d, sm, NewTheme(CurrentTheme(d.marker)))

\* forEach(btn => btn.addEventListener('click', toggleTheme))
AttachListeners(cs) == [i \in DOMAIN cs |-> [cs[i] EXCEPT !.listener = TRUE]]

\* Mutation: initTheme starts from the default theme.
InitResolved_Default(st) == LIGHT_THEME

\* The theme initTheme resolves: getSavedTheme(), not checkSystemPreference().
InitResolved(st) == getSavedTheme(st)

\* Mutation: the listeners are attached before the theme is applied.
initTheme_AttachFirst(d, sm) ==
    IF sm = "unavailable"
      THEN [marker |-> d.marker, store |-> d.store, controls |-> d.controls, threw |-> TRUE]
      ELSE LET r == applyTheme([d EXCEPT !.controls = AttachListeners(d.controls)],
                               sm, InitResolved(d.store))
           IN  r

\* initTheme(): getSavedTheme() throws when the storage cannot be read, and
\* the listeners are attached only when applyTheme returned.
initTheme(d, sm) ==
    IF sm = "unavailable"
      THEN [marker |-> d.marker, store |-> d.store, controls |-> d.controls, threw |-> TRUE]
      ELSE LET r == applyTheme(d, sm, InitResolved(d.store))
           IN  IF r.threw THEN r ELSE [r EXCEPT !.controls = AttachListeners(r.controls)]

Doc == [marker |-> marker, store |-> store, controls |-> controls]

\* ------------------------------------------------------- history helpers
NoSnap == << Null, Null >>
NoObs == << Null, Null, << >> >>

\* Bookkeeping of an applyTheme(t) call made in the state (m, st, cs).
ApplyHist(t, m, st, cs) ==
    /\ lastArg' = t
    /\ repeat' = IF lastArg = t THEN Min(repeat + 1, 2) ELSE 1
    /\ after1' = Observable(m, st, cs)

ResetApplyHist ==
    /\ lastArg' = Null
    /\ repeat' = 0
    /\ after1' = NoObs

ResetToggleHist ==
    /\ togglesInRow' = 0
    /\ snap1' = NoSnap
    /\ snap2' = NoSnap

\* ------------------------------------------------------------------ Init
\* A page without any of the main script's elements.
NoClick == [kind |-> Null, idx |-> 0]
NoPreNav == [sidebar |-> FALSE, overlay |-> FALSE, sel |-> << >>]
FormIds == {"login", "search"}

NavIdle ==
    /\ sbDom = [sidebar |-> FALSE, toggle |-> FALSE, overlay |-> FALSE]
    /\ sidebarOpen = FALSE
    /\ overlayOpen = FALSE
    /\ sbStartClosed = TRUE
    /\ selectors = << >>
    /\ lastClick = NoClick
    /\ preNav = NoPreNav

FormsIdle ==
    /\ fields = << >>
    /\ validate = [f \in FormIds |-> FALSE]
    /\ lastSubmit = Null
    /\ prevented = FALSE
    /\ clearedError = FALSE

AlertsIdle ==
    /\ alerts = << >>
    /\ timers = {}
    /\ now = 0

UiIdle ==
    /\ mainReady = FALSE
    /\ NavIdle
    /\ FormsIdle
    /\ AlertsIdle

\* The first visit of a browser profile: nothing persisted yet. Stored values
\* come from the script's own writes and survive Reload.
Init ==
    /\ store = Null
    /\ storage \in StorageModes
    /\ prefersDark \in BOOLEAN
    /\ marker = Null
    /\ controls = << >>
    /\ readyState = "loading"
    /\ pc = "start"
    /\ exposed = FALSE
    /\ uncaught = FALSE
    /\ store0 = store
    /\ toggled = FALSE
    /\ prepassTheme = Null
    /\ initApplied = Null
    /\ togglesInRow = 0
    /\ snap1 = NoSnap
    /\ snap2 = NoSnap
    /\ lastArg = Null
    /\ repeat = 0
    /\ after1 = NoObs
    /\ toggleAt = Null
    /\ toggleVia = Null
    /\ earlyTheme = Null
    /\ resolvePure = TRUE
    /\ UiIdle

\* --------------------------------------------------------------- actions

\* The HTML parser reaches another .theme-toggle element.
ParseControl ==
    /\ readyState = "loading"
    /\ Len(controls) < MaxControls
    /\ \E c \in MarkupControls : controls' = Append(controls, c)
    /\ ResetApplyHist
    /\ UNCHANGED << store, storage, prefersDark, marker, readyState, pc, exposed,
                    uncaught, store0, toggled, prepassTheme, initApplied,
                    togglesInRow, snap1, snap2, toggleAt, toggleVia, earlyTheme,
                    resolvePure >>
    /\ UNCHANGED uiVars

\* The DOM-ready initialization, run in document state d.
RunInit(d, exposedAfter) ==
    LET r == initTheme(d, storage)
    IN  /\ marker' = r.marker
        /\ store' = r.store
        /\ controls' = r.controls
        /\ pc' = IF r.threw THEN "failed" ELSE "done"
        /\ uncaught' = (uncaught \/ r.threw)
        /\ exposed' = IF r.threw THEN exposed ELSE exposedAfter
        /\ initApplied' = IF storage = "unavailable" THEN Null ELSE InitResolved(d.store)
        /\ IF storage = "unavailable"
             THEN ResetApplyHist
             ELSE ApplyHist(InitResolved(d.store), d.marker, d.store, d.controls)
        /\ ResetToggleHist
        /\ UNCHANGED << toggleAt, toggleVia, earlyTheme >>

\* The script element executes: the anti-flash pass, the DOM-ready dispatch
\* and the global export, in one task.
RunScript ==
    /\ pc = "start"
    /\ IF storage = "unavailable"
         THEN \* localStorage.getItem throws inside checkSystemPreference
              /\ pc' = "aborted"
              /\ uncaught' = TRUE
              /\ ResetToggleHist
              /\ ResetApplyHist
              /\ UNCHANGED << store, marker, controls, exposed, prepassTheme, initApplied,
                              toggleAt, toggleVia, earlyTheme, resolvePure >>
         ELSE LET res == ResolveEffect(Doc, prefersDark)
                  theme == res.theme
              IN  /\ prepassTheme' = theme
                  /\ resolvePure' = (res.doc = Doc)
                  /\ IF readyState = "loading"
                       THEN \* addEventListener('DOMContentLoaded', initTheme)
                            /\ marker' = theme
                            /\ store' = res.doc.store
                            /\ controls' = res.doc.controls
                            /\ pc' = "waiting"
                            /\ exposed' = TRUE
                            /\ ResetToggleHist
                            /\ ResetApplyHist
                            /\ UNCHANGED << uncaught, initApplied, toggleAt, toggleVia,
                                            earlyTheme >>
                       ELSE RunInit([marker |-> theme, store |-> res.doc.store,
                                     controls |-> res.doc.controls], TRUE)
    /\ UNCHANGED << storage, prefersDark, readyState, store0, toggled >>
    /\ UNCHANGED uiVars

\* The document finishes parsing; a registered initTheme runs.
DOMContentLoaded ==
    /\ readyState = "loading"
    /\ readyState' = "interactive"
    /\ IF pc = "waiting"
         THEN RunInit(Doc, exposed)
         ELSE /\ ResetToggleHist
              /\ ResetApplyHist
              /\ UNCHANGED << store, marker, controls, pc, exposed, uncaught, initApplied,
                              toggleAt, toggleVia, earlyTheme >>
    /\ UNCHANGED << storage, prefersDark, store0, toggled, prepassTheme, resolvePure >>
    /\ UNCHANGED uiVars

\* One toggleTheme() call, made through a click listener or the global.
ToggleStep(via) ==
    LET r == toggleTheme(Doc, storage)
    IN  /\ marker' = r.marker
        /\ store' = r.store
        /\ controls' = r.controls
        /\ uncaught' = (uncaught \/ r.threw)
        /\ toggled' = TRUE
        /\ togglesInRow' = Min(togglesInRow + 1, 2)
        /\ snap2' = snap1
        /\ snap1' = << marker, store >>
        /\ ApplyHist(NewTheme(CurrentTheme(marker)), marker, store, controls)
        /\ toggleAt' = pc
        /\ toggleVia' = via
        /\ earlyTheme' = IF pc = "waiting" THEN r.marker ELSE earlyTheme
        /\ UNCHANGED << storage, prefersDark, readyState, pc, exposed, store0,
                        prepassTheme, initApplied, resolvePure >>

\* A click on a control that initTheme wired.
Click ==
    /\ \E i \in DOMAIN controls : controls[i].listener
    /\ ToggleStep("click")
    /\ UNCHANGED uiVars

\* window.toggleTheme() called from markup or another script.
GlobalToggle ==
    /\ exposed
    /\ ToggleStep("global")
    /\ UNCHANGED uiVars

\* The user navigates or reloads: a new document, the same localStorage
\* entry; the colour-scheme preference and the storage policy may have been
\* changed in the meantime.
Reload ==
    /\ pc # "start"
    /\ prefersDark' \in BOOLEAN
    /\ storage' \in StorageModes
    /\ marker' = Null
    /\ controls' = << >>
    /\ readyState' = "loading"
    /\ pc' = "start"
    /\ exposed' = FALSE
    /\ uncaught' = FALSE
    /\ store0' = store
    /\ toggled' = FALSE
    /\ prepassTheme' = Null
    /\ initApplied' = Null
    /\ ResetToggleHist
    /\ ResetApplyHist
    /\ toggleAt' = Null
    /\ toggleVia' = Null
    /\ earlyTheme' = Null
    /\ resolvePure' = TRUE
    /\ UNCHANGED store
    /\ UNCHANGED uiVars

Next ==
    \/ ParseControl
    \/ RunScript
    \/ DOMContentLoaded
    \/ Click
    \/ GlobalToggle
    \/ Reload

Spec == Init /\ [][Next]_vars

\* ------------------------------------------- applyTheme from any state
ControlSeqs(S) == UNION { [1..n -> S] : n \in 0..MaxControls }

InitApply ==
    /\ store \in {Null} \cup Themes
    /\ storage \in StorageModes
    /\ prefersDark = FALSE
    /\ marker \in {Null} \cup Themes
    /\ controls \in ControlSeqs(MarkupControls)
    /\ readyState = "interactive"
    /\ pc = "done"
    /\ exposed = TRUE
    /\ uncaught = FALSE
    /\ store0 = store
    /\ toggled = FALSE
    /\ prepassTheme = Null
    /\ initApplied = Null
    /\ togglesInRow = 0
    /\ snap1 = NoSnap
    /\ snap2 = NoSnap
    /\ lastArg = Null
    /\ repeat = 0
    /\ after1 = NoObs
    /\ toggleAt = Null
    /\ toggleVia = Null
    /\ earlyTheme = Null
    /\ resolvePure = TRUE
    /\ UiIdle

ApplyThemeCall ==
    \E t \in Themes :
        LET r == applyTheme(Doc, storage, t)
        IN  /\ marker' = r.marker
            /\ store' = r.store
            /\ controls' = r.controls
            /\ uncaught' = r.threw
            /\ ApplyHist(t, marker, store, controls)
            /\ UNCHANGED << storage, prefersDark, readyState, pc, exposed, store0,
                            toggled, prepassTheme, initApplied, togglesInRow,
                            snap1, snap2, toggleAt, toggleVia, earlyTheme,
                            resolvePure >>
            /\ UNCHANGED uiVars

NextApply == ApplyThemeCall

SpecApply == InitApply /\ [][NextApply]_vars

\* ======================================================================
\* The main script: sidebar, language selector, alerts, forms.
\* ======================================================================

\* The theme script plays no part in the specifications below.
ThemeIdle ==
    /\ store = Null
    /\ storage = "ok"
    /\ prefersDark = FALSE
    /\ marker = Null
    /\ controls = << >>
    /\ readyState = "loading"
    /\ pc = "start"
    /\ exposed = FALSE
    /\ uncaught = FALSE
    /\ store0 = Null
    /\ toggled = FALSE
    /\ prepassTheme = Null
    /\ initApplied = Null
    /\ togglesInRow = 0
    /\ snap1 = NoSnap
    /\ snap2 = NoSnap
    /\ lastArg = Null
    /\ repeat = 0
    /\ after1 = NoObs
    /\ toggleAt = Null
    /\ toggleVia = Null
    /\ earlyTheme = Null
    /\ resolvePure = TRUE

SeqsUpTo(S, n) == UNION { [1..k -> S] : k \in 0..n }

\* ------------------------------------------------------------ time, alerts
DefaultDismiss == 5000
FadeDuration == 300

Digits == {"0", "1", "2", "3", "4", "5", "6", "7", "8", "9"}

DigitVal ==
    "0" :> 0 @@ "1" :> 1 @@ "2" :> 2 @@ "3" :> 3 @@ "4" :> 4 @@
    "5" :> 5 @@ "6" :> 6 @@ "7" :> 7 @@ "8" :> 8 @@ "9" :> 9

RECURSIVE SkipSpaces(_)
SkipSpaces(str) ==
    IF str # << >> /\ Head(str) = " " THEN SkipSpaces(Tail(str)) ELSE str

\* The value of the longest prefix of digits of str, continuing from acc.
RECURSIVE DigitRun(_, _)
DigitRun(str, acc) ==
    IF str # << >> /\ Head(str) \in Digits
      THEN DigitRun(Tail(str), 10 * acc + DigitVal[Head(str)])
      ELSE acc

\* parseInt(str): leading white space, an optional sign, then digits up to
\* the first other character; NaN when no digit is found there.
ParseInt(str) ==
    LET t == SkipSpaces(str)
        signed == t # << >> /\ Head(t) \in {"-", "+"}
        body == IF signed THEN Tail(t) ELSE t
        sign == IF signed /\ Head(t) = "-" THEN -1 ELSE 1
    IN  IF body = << >> \/ Head(body) \notin Digits
          THEN [nan |-> TRUE, val |-> 0]
          ELSE [nan |-> FALSE, val |-> sign * DigitRun(body, 0)]

\* Mutation: a missing or unusable delay dismisses at once.
DismissTime_NoDefault(attr) ==
    IF ParseInt(attr).nan THEN 0 ELSE ParseInt(attr).val

\* parseInt(alert.dataset.dismiss) || 5000: NaN and 0 are falsy.
DismissTime(attr) ==
    IF ParseInt(attr).nan \/ ParseInt(attr).val = 0
      THEN DefaultDismiss
      ELSE ParseInt(attr).val

\* setTimeout treats a negative delay as 0.
TimerDelay(ms) == IF ms < 0 THEN 0 ELSE ms

\* initAlerts(): one fade timer per .alert[data-dismiss] present now.
FadeTimers(as, t) ==
    { [alert |-> i, kind |-> "fade", due |-> t + TimerDelay(DismissTime(as[i].dismiss))] :
        i \in { j \in DOMAIN as : as[j].hasDismiss /\ ~as[j].removed } }

\* init(): initSidebar, initLanguageSelector, initAlerts, initForms attach
\* their listeners to the elements present and start the alert timers.
MainInit ==
    /\ ~mainReady
    /\ mainReady' = TRUE
    /\ timers' = FadeTimers(alerts, now)
    /\ UNCHANGED << sbDom, sidebarOpen, overlayOpen, sbStartClosed, selectors,
                    lastClick, preNav, fields, validate, lastSubmit, prevented,
                    clearedError, alerts, now >>
    /\ UNCHANGED themeVars

\* ------------------------------------------- sidebar, language selector
\* initSidebar attaches its listeners only if (toggle && sidebar).
SidebarWired(dom) == dom.toggle /\ dom.sidebar

\* Mutation: the overlay is opened instead of toggled.
ToggleSidebar_OverlayAdd(dom, so, oo) ==
    [sidebar |-> ~so, overlay |-> IF dom.overlay THEN TRUE ELSE oo]

\* The toggle's click listener: classList.toggle('open') on both.
ToggleSidebar(dom, so, oo) ==
    [sidebar |-> ~so, overlay |-> IF dom.overlay THEN ~oo ELSE oo]

\* The document's click listener: every selector loses 'open'.
CloseAll(sel) == [i \in DOMAIN sel |-> [sel[i] EXCEPT !.open = FALSE]]

\* A .lang-btn click listener: selector.classList.toggle('open').
ToggleSelector(sel, i) == [sel EXCEPT ![i].open = ~sel[i].open]

OpenFlags(sel) == [i \in DOMAIN sel |-> sel[i].open]

NavHist(kind, idx) ==
    /\ lastClick' = [kind |-> kind, idx |-> idx]
    /\ preNav' = [sidebar |-> sidebarOpen, overlay |-> overlayOpen, sel |-> OpenFlags(selectors)]

NavFrame ==
    /\ UNCHANGED << mainReady, sbDom, sbStartClosed, fields, validate, lastSubmit,
                    prevented, clearedError, alerts, timers, now >>
    /\ UNCHANGED themeVars

\* A click on .sidebar-toggle: its listener, then the document's.
ClickSidebarToggle ==
    /\ mainReady
    /\ sbDom.toggle
    /\ IF SidebarWired(sbDom)
         THEN /\ sidebarOpen' = ToggleSidebar(sbDom, sidebarOpen, overlayOpen).sidebar
              /\ overlayOpen' = ToggleSidebar(sbDom, sidebarOpen, overlayOpen).overlay
         ELSE UNCHANGED << sidebarOpen, overlayOpen >>
    /\ selectors' = CloseAll(selectors)
    /\ NavHist("sidebarToggle", 0)
    /\ NavFrame

\* A click on .sidebar-overlay: its listener, then the document's.
ClickOverlay ==
    /\ mainReady
    /\ sbDom.overlay
    /\ IF SidebarWired(sbDom)
         THEN /\ sidebarOpen' = FALSE
              /\ overlayOpen' = FALSE
         ELSE UNCHANGED << sidebarOpen, overlayOpen >>
    /\ selectors' = CloseAll(selectors)
    /\ NavHist("overlay", 0)
    /\ NavFrame

\* A click on the .lang-btn of selector i: stopPropagation keeps the click
\* from the document's listener.
ClickLangBtn ==
    /\ mainReady
    /\ \E i \in DOMAIN selectors :
          /\ selectors[i].hasBtn
          /\ selectors' = ToggleSelector(selectors, i)
          /\ NavHist("langBtn", i)
    /\ UNCHANGED << sidebarOpen, overlayOpen >>
    /\ NavFrame

\* A click inside selector i, not on its button: it bubbles to the document.
ClickInsideSelector ==
    /\ mainReady
    /\ \E i \in DOMAIN selectors :
          /\ selectors' = CloseAll(selectors)
          /\ NavHist("inside", i)
    /\ UNCHANGED << sidebarOpen, overlayOpen >>
    /\ NavFrame

\* A click anywhere else in the document.
ClickElsewhere ==
    /\ mainReady
    /\ selectors' = CloseAll(selectors)
    /\ NavHist("elsewhere", 0)
    /\ UNCHANGED << sidebarOpen, overlayOpen >>
    /\ NavFrame

InitNav ==
    /\ ThemeIdle
    /\ FormsIdle
    /\ AlertsIdle
    /\ mainReady = FALSE
    /\ sbDom \in [sidebar : BOOLEAN, toggle : BOOLEAN, overlay : BOOLEAN]
    /\ sidebarOpen \in (IF sbDom.sidebar THEN BOOLEAN ELSE {FALSE})
    /\ overlayOpen \in (IF sbDom.overlay THEN BOOLEAN ELSE {FALSE})
    /\ sbStartClosed = (~sidebarOpen /\ ~overlayOpen)
    /\ selectors \in SeqsUpTo({ [hasBtn |-> b, open |-> FALSE] : b \in BOOLEAN }, MaxSelectors)
    /\ lastClick = NoClick
    /\ preNav = NoPreNav

NextNav ==
    \/ MainInit
    \/ ClickSidebarToggle
    \/ ClickOverlay
    \/ ClickLangBtn
    \/ ClickInsideSelector
    \/ ClickElsewhere

SpecNav == InitNav /\ [][NextNav]_vars

\* ------------------------------------------------------------------ forms
\* Field values the user can leave in an input.
FieldValues == { << >>, << " " >>, << "a" >>, << " ", "a", " " >> }

RECURSIVE TrimRight(_)
TrimRight(v) ==
    IF v # << >> /\ v[Len(v)] = " " THEN TrimRight(SubSeq(v, 1, Len(v) - 1)) ELSE v

\* Mutation: the value is tested without trimming.
Trim_None(v) == v

\* String.prototype.trim()
Trim(v) == TrimRight(SkipSpaces(v))

\* form.querySelectorAll('[required]')
RequiredFields(fs, f) == { i \in DOMAIN fs : fs[i].form = f /\ fs[i].required }

\* The submit listener of form f: marks every required field, and reports
\* whether it called preventDefault.
SubmitEffect(fs, f) ==
    [fields |-> [i \in DOMAIN fs |->
                    IF i \in RequiredFields(fs, f)
                      THEN [fs[i] EXCEPT !.error = (Trim(fs[i].value) = << >>)]
                      ELSE fs[i]],
     prevented |-> \E i \in RequiredFields(fs, f) : Trim(fs[i].value) = << >>]

FormsFrame ==
    /\ UNCHANGED << mainReady, sbDom, sidebarOpen, overlayOpen, sbStartClosed,
                    selectors, lastClick, preNav, validate, alerts, timers, now >>
    /\ UNCHANGED themeVars

\* A submit event on form f; only forms with data-validate have a listener.
Submit ==
    /\ mainReady
    /\ \E f \in FormIds :
          LET r == IF validate[f]
                     THEN SubmitEffect(fields, f)
                     ELSE [fields |-> fields, prevented |-> FALSE]
          IN  /\ fields' = r.fields
              /\ prevented' = r.prevented
              /\ lastSubmit' = f
              /\ clearedError' = \E i \in DOMAIN fields : fields[i].error /\ ~r.fields[i].error
    /\ FormsFrame

\* The user edits a field.
TypeField ==
    /\ \E i \in DOMAIN fields : \E v \in FieldValues \ {fields[i].value} :
          fields' = [fields EXCEPT ![i].value = v]
    /\ lastSubmit' = Null
    /\ prevented' = FALSE
    /\ clearedError' = FALSE
    /\ FormsFrame

InitForms ==
    /\ ThemeIdle
    /\ NavIdle
    /\ AlertsIdle
    /\ mainReady = FALSE
    /\ fields \in SeqsUpTo([form : FormIds, required : BOOLEAN,
                             value : {<< >>}, error : {FALSE}], MaxFields)
    /\ validate \in [FormIds -> BOOLEAN]
    /\ lastSubmit = Null
    /\ prevented = FALSE
    /\ clearedError = FALSE

NextForms ==
    \/ MainInit
    \/ Submit
    \/ TypeField

SpecForms == InitForms /\ [][NextForms]_vars

\* ----------------------------------------------------------------- alerts
\* data-dismiss values found in markup: empty, a word, numbers, a number
\* with a unit, a padded number.
DismissAttrs ==
    { << >>, << "x" >>, << "0" >>, << "7" >>, << "2", "5" >>, << "-", "5" >>,
      << "9", "x" >>, << " ", "3" >> }

NeverAt == -1

AlertMarkup ==
    { [hasDismiss |-> FALSE, dismiss |-> << >>, opacity |-> "1", removed |-> FALSE,
       fadeAt |-> NeverAt, removedAt |-> NeverAt] }
    \cup
    { [hasDismiss |-> TRUE, dismiss |-> a, opacity |-> "1", removed |-> FALSE,
       fadeAt |-> NeverAt, removedAt |-> NeverAt] : a \in DismissAttrs }

\* The outer timeout callback: fade, and schedule the removal.
FadeEffect(as, i, t) ==
    [alerts |-> [as EXCEPT ![i].opacity = "0", ![i].fadeAt = t],
     timer |-> [alert |-> i, kind |-> "remove", due |-> t + TimerDelay(FadeDuration)]]

\* The inner timeout callback: alert.remove().
RemoveEffect(as, i, t) == [as EXCEPT ![i].removed = TRUE, ![i].removedAt = t]

\* The event loop runs the timer that is due first.
FireTimer ==
    /\ mainReady
    /\ \E t \in timers :
          /\ \A u \in timers : t.due <= u.due
          /\ now' = IF t.due > now THEN t.due ELSE now
          /\ IF t.kind = "fade"
               THEN /\ alerts' = FadeEffect(alerts, t.alert, now').alerts
                    /\ timers' = (timers \ {t}) \cup {FadeEffect(alerts, t.alert, now').timer}
               ELSE /\ alerts' = RemoveEffect(alerts, t.alert, now')
                    /\ timers' = timers \ {t}
    /\ UNCHANGED << mainReady, sbDom, sidebarOpen, overlayOpen, sbStartClosed,
                    selectors, lastClick, preNav, fields, validate, lastSubmit,
                    prevented, clearedError >>
    /\ UNCHANGED themeVars

InitAlerts ==
    /\ ThemeIdle
    /\ NavIdle
    /\ FormsIdle
    /\ mainReady = FALSE
    /\ alerts \in SeqsUpTo(AlertMarkup, MaxAlerts)
    /\ timers = {}
    /\ now = 0

NextAlerts ==
    \/ MainInit
    \/ FireTimer

\* The browser runs init() once the document is ready and runs every timer
\* that has become due.
SpecAlerts ==
    InitAlerts /\ [][NextAlerts]_vars /\ WF_vars(MainInit) /\ WF_vars(FireTimer)

\* ---------------------------------------------------------------- claims
AllControlsShow(theme) ==
    \A i \in DOMAIN controls :
        /\ controls[i].pressed = PressedFor(theme)
        /\ controls[i].title = TitleFor(theme)

\* C1: on a fresh load with an empty store and a dark ambient signal, once
\* the anti-flash pass and the DOM-ready initialization have both run with no
\* toggle in between, the marker is dark and the store holds dark.
C1_FreshDarkLoad ==
    (storage = "ok" /\ store0 = Null /\ prefersDark /\ pc = "done" /\ ~toggled)
        => (marker = DARK_THEME /\ store = DARK_THEME)

\* C2: when the storage throws on write, applyTheme(t) still sets the marker
\* to t, still updates every toggle control, and no exception escapes.
C2_WriteFaultContained ==
    (storage # "ok" /\ lastArg # Null)
        => (marker = lastArg /\ AllControlsShow(lastArg) /\ ~uncaught)

\* C3: with N >= 1 controls present at initialization, after a toggleTheme()
\* call every control shows the new theme: pressed exactly when the theme is
\* dark, the title naming the other theme, all controls alike.
C3_AllControlsUpdated ==
    (storage = "ok" /\ pc = "done" /\ togglesInRow >= 1 /\ Len(controls) >= 1)
        => AllControlsShow(marker)

\* C4: with working storage, after applyTheme(t) from any prior state the
\* marker reads t and the store entry reads t.
C4_ApplySetsMarkerAndStore ==
    (storage = "ok" /\ lastArg # Null) => (marker = lastArg /\ store = lastArg)

C4_Witness ==
    /\ storage = "ok"
    /\ lastArg = DARK_THEME
    /\ repeat = 1
    /\ after1[1] = LIGHT_THEME
    /\ after1[2] = Null
    /\ marker = DARK_THEME
    /\ store = DARK_THEME

\* C5: after initialization, two consecutive toggleTheme() calls restore the
\* marker and the store entry they started from.
C5_ToggleInvolution ==
    (pc \in {"done", "failed"} /\ togglesInRow = 2) => << marker, store >> = snap2

C5_Witness ==
    /\ pc = "done"
    /\ storage = "ok"
    /\ togglesInRow = 2
    /\ snap2 = << DARK_THEME, DARK_THEME >>
    /\ snap1 = << LIGHT_THEME, LIGHT_THEME >>
    /\ marker = DARK_THEME

\* C6: a second applyTheme(t) right after applyTheme(t) leaves the marker,
\* the store entry and every control's pressed state and title as the first
\* call left them.
C6_ApplyIdempotent ==
    repeat = 2 => Observable(marker, store, controls) = after1

C6_Witness ==
    /\ repeat = 2
    /\ storage = "ok"
    /\ lastArg = DARK_THEME
    /\ Len(controls) >= 2
    /\ controls[1].pressed = "true"
    /\ controls[2].pressed = Null

\* C7: the anti-flash resolution returns the stored entry when there is one,
\* whatever the ambient signal, and otherwise dark exactly when the ambient
\* signal prefers dark.
C7_ResolutionPrecedence ==
    prepassTheme # Null =>
        prepassTheme = IF store0 = Null
                         THEN (IF prefersDark THEN DARK_THEME ELSE LIGHT_THEME)
                         ELSE store0

C7_Witness ==
    /\ pc = "waiting"
    /\ store0 = LIGHT_THEME
    /\ prefersDark
    /\ prepassTheme = LIGHT_THEME

\* C8: with a stored entry p and no toggle during the load, the marker is p
\* after the anti-flash pass and after the DOM-ready initialization, and the
\* store still holds p, whatever the ambient signal.
C8_PersistedWins ==
    (store0 \in Themes /\ ~toggled /\ pc \in {"waiting", "done", "failed"})
        => (prepassTheme = store0 /\ marker = store0 /\ store = store0)

C8_Witness ==
    /\ pc = "done"
    /\ store0 = LIGHT_THEME
    /\ prefersDark
    /\ ~toggled
    /\ initApplied = LIGHT_THEME
    /\ marker = LIGHT_THEME

\* C9: with storage that throws on every access the script still sets a
\* marker in {light, dark}, still exposes the global toggle, still wires the
\* controls at DOM-ready, and no exception escapes.
C9_StorageUnavailableDegrades ==
    (storage = "unavailable" /\ pc # "start")
        => /\ marker \in Themes
           /\ exposed
           /\ ~uncaught
           /\ (readyState = "interactive" => \A i \in DOMAIN controls : controls[i].listener)

\* C10: with no toggle in between, the theme the DOM-ready initialization
\* applies equals the theme the anti-flash pass put on the marker.
C10_PhasesAgree ==
    (initApplied # Null /\ ~toggled) => initApplied = prepassTheme

\* C11 (as stated): a toggleTheme call only happens once initTheme has run and
\* attached the listeners, never between the anti-flash pass and initTheme.
C11_ToggleOnlyAfterInit ==
    toggleAt # Null => toggleAt = "done"

\* C11 (amended): a toggle only happens after the anti-flash pass; a toggle
\* made through a click listener only happens once initTheme has completed;
\* a toggle made through window.toggleTheme may precede initTheme.
C11_ToggleOrdering ==
    /\ toggleAt # Null => (prepassTheme # Null /\ toggleAt \in {"waiting", "done", "failed"})
    /\ toggleVia = "click" => (toggleAt = "done" /\ initApplied # Null)
    /\ toggleAt = "waiting" => toggleVia = "global"

C11_Witness ==
    /\ toggleVia = "click"
    /\ toggleAt = "done"
    /\ earlyTheme # Null
    /\ Len(controls) >= 2

\* C12: the initial resolution only reads: the anti-flash pass leaves the
\* store entry and the controls as they were, and the marker it then sets is
\* the resolved theme.
C12_ResolutionIsPureRead ==
    /\ prepassTheme # Null => resolvePure
    /\ (pc = "waiting" /\ ~toggled) => (store = store0 /\ marker = prepassTheme)

C12_Witness ==
    /\ pc = "waiting"
    /\ ~toggled
    /\ store0 = Null
    /\ prefersDark
    /\ prepassTheme = DARK_THEME
    /\ store = Null
    /\ Len(controls) >= 1

\* C17: with working storage, once the script has run in the document the
\* marker is light or dark, and a store entry, when there is one, equals the
\* marker.
C17_StoreMatchesMarker ==
    (storage = "ok" /\ pc \in {"waiting", "done"})
        => (marker \in Themes /\ (store # Null => store = marker))

C17_Witness ==
    /\ storage = "ok"
    /\ pc = "done"
    /\ store0 = LIGHT_THEME
    /\ togglesInRow = 1
    /\ store = DARK_THEME
    /\ marker = DARK_THEME

\* C18: with a single toggle control, after initialization and any toggles
\* aria-pressed is true exactly when the theme is dark and the title names the
\* theme the control would switch to.
C18_SingleControlInSync ==
    (pc = "done" /\ Len(controls) = 1)
        => /\ (controls[1].pressed = "true") <=> (marker = DARK_THEME)
           /\ controls[1].pressed \in {"true", "false"}
           /\ marker = DARK_THEME => controls[1].title = "Switch to Light Mode"
           /\ marker = LIGHT_THEME => controls[1].title = "Switch to Dark Mode"
           /\ marker \in Themes

C18_Witness ==
    /\ pc = "done"
    /\ Len(controls) = 1
    /\ togglesInRow = 2
    /\ marker = DARK_THEME
    /\ controls[1].title = "Switch to Light Mode"

\* C19: with working storage, a toggle made through window.toggleTheme
\* before initTheme runs is kept: initTheme applies the toggled theme, and
\* the marker and the store hold it afterwards.
C19_EarlyToggleKept ==
    (storage = "ok" /\ pc = "done" /\ toggleAt = "waiting")
        => (initApplied = earlyTheme /\ marker = earlyTheme /\ store = earlyTheme)

C19_Witness ==
    /\ storage = "ok"
    /\ pc = "done"
    /\ toggleAt = "waiting"
    /\ store0 = Null
    /\ ~prefersDark
    /\ earlyTheme = DARK_THEME
    /\ marker = DARK_THEME

\* C13: a click on a dropdown's button flips that dropdown, and a click that
\* lands outside a dropdown that was open, the button of another dropdown
\* included, leaves that dropdown closed.
C13_OutsideClickCloses ==
    (mainReady /\ lastClick.kind # Null) =>
        /\ lastClick.kind = "langBtn" =>
              selectors[lastClick.idx].open = ~preNav.sel[lastClick.idx]
        /\ \A a \in DOMAIN selectors :
              (preNav.sel[a] /\ ~(lastClick.kind \in {"langBtn", "inside"} /\ lastClick.idx = a))
                  => ~selectors[a].open

\* C15: with sidebar, toggle button and overlay present, a toggle click flips
\* 'open' on both, an overlay click closes both, and when both started closed
\* the sidebar is open exactly when the overlay is.
C15_SidebarOverlayInSync ==
    (mainReady /\ sbDom.sidebar /\ sbDom.toggle /\ sbDom.overlay) =>
        /\ lastClick.kind = "sidebarToggle" =>
              (sidebarOpen = ~preNav.sidebar /\ overlayOpen = ~preNav.overlay)
        /\ lastClick.kind = "overlay" => (~sidebarOpen /\ ~overlayOpen)
        /\ sbStartClosed => (sidebarOpen = overlayOpen)

C15_Witness ==
    /\ mainReady
    /\ sbDom.sidebar /\ sbDom.toggle /\ sbDom.overlay
    /\ sbStartClosed
    /\ lastClick.kind = "sidebarToggle"
    /\ preNav.sidebar /\ preNav.overlay
    /\ ~sidebarOpen /\ ~overlayOpen

IsBlank(v) == \A k \in DOMAIN v : v[k] = " "

\* C14: a submit of a form with data-validate is blocked exactly when one of
\* its required fields is empty after trimming, and afterwards each of its
\* required fields carries the error class exactly when it was empty.
C14_ValidationBlocksIffEmpty ==
    (mainReady /\ lastSubmit # Null /\ validate[lastSubmit]) =>
        /\ prevented <=> (\E i \in DOMAIN fields :
                             /\ fields[i].form = lastSubmit
                             /\ fields[i].required
                             /\ IsBlank(fields[i].value))
        /\ \A i \in DOMAIN fields :
              (fields[i].form = lastSubmit /\ fields[i].required)
                  => (fields[i].error <=> IsBlank(fields[i].value))

C14_Witness ==
    /\ mainReady
    /\ lastSubmit = "login"
    /\ validate["login"]
    /\ clearedError
    /\ prevented
    /\ Len(fields) = 2
    /\ \A i \in DOMAIN fields : fields[i].form = "login" /\ fields[i].required
    /\ fields[1].value = << " ", "a", " " >> /\ ~fields[1].error
    /\ fields[2].value = << " " >> /\ fields[2].error

\* The delay each data-dismiss value asks for, read off the markup; values
\* without a leading number ask for none.
NoDelayAttrs == { << >>, << "x" >> }

AskedDelay ==
    << "0" >> :> 0 @@ << "7" >> :> 7 @@ << "2", "5" >> :> 25 @@
    << "-", "5" >> :> (0 - 5) @@ << "9", "x" >> :> 9 @@ << " ", "3" >> :> 3

C16_Timing ==
    \A i \in DOMAIN alerts :
        alerts[i].hasDismiss =>
            /\ alerts[i].removed =>
                  /\ alerts[i].opacity = "0"
                  /\ alerts[i].fadeAt # NeverAt
                  /\ alerts[i].removedAt = alerts[i].fadeAt + 300
            /\ alerts[i].opacity = "0" <=> alerts[i].fadeAt # NeverAt
            /\ alerts[i].fadeAt # NeverAt =>
                  IF alerts[i].dismiss \in NoDelayAttrs
                    THEN alerts[i].fadeAt = 5000
                    ELSE alerts[i].fadeAt >= AskedDelay[alerts[i].dismiss]

C16_AllRemoved ==
    \A i \in DOMAIN alerts : alerts[i].hasDismiss => alerts[i].removed

\* C16: every alert with data-dismiss present at initialization is
\* eventually removed; it fades (opacity 0) before it is removed, is removed
\* 300ms after the fade began and not before the delay it asks for, and a
\* missing or non-numeric delay counts as 5000ms.
C16_AlertsDismissed ==
    /\ []C16_Timing
    /\ <>[]C16_AllRemoved

C16_Witness ==
    /\ Len(alerts) = 2
    /\ alerts[1].dismiss = << "2", "5" >>
    /\ alerts[1].removed
    /\ alerts[1].fadeAt = 25
    /\ alerts[1].removedAt = 325
    /\ alerts[2].hasDismiss
    /\ alerts[2].dismiss = << >>
    /\ alerts[2].removed
    /\ alerts[2].removedAt = 5300

====
